---- MODULE Spec2Model ----
(***************************************************************************)
(* Polly polling app: the store (polls, poll_options, votes, comments with *)
(* their constraints, cascades and row-level-security policies) and the    *)
(* server actions that mutate it, one action per store call of a handler, *)
(* so that concurrent requests interleave at every await.                  *)
(***************************************************************************)
EXTENDS Integers, Sequences, FiniteSets, TLC

\* ------------------------------------------------------------------ bounds
MaxReq == 2
MaxOps == 2

\* ------------------------------------------------------------------ inputs
Users == {"u1", "u2"}
NoUser == "anon"
SessionError == "session-error"
Sessions == Users \cup {NoUser, SessionError}

BadId == 0
\* a well-formed id that no row has or ever had
UnknownId == 99
Slots == 1..MaxReq

\* Texts are sequences of one-character strings.
Txt_Q == <<"Q">>
Txt_R == <<"R", " ">>
Txt_blank == <<" ">>
Txt_a == <<"a">>
Txt_b == <<"b">>
Txt_A_sp == <<" ", "A">>
NoDescription == << >>
Txt_d == <<"d">>

Txt_c == <<"c">>
\* The comment texts a caller may submit.
\* A comment one character longer than createCommentSchema's max(1000).
Txt_long == [i \in 1..1001 |-> "x"]
CommentInputs == {Txt_c, << >>, Txt_long}

\* The users whose user_metadata.role is 'admin'.
Admins == {"u1"}

\* The poll data a caller may submit (CreatePollData / UpdatePollData).
PollInputs ==
  { [title |-> Txt_Q, description |-> Txt_d, options |-> <<Txt_a, Txt_b>>],
    [title |-> Txt_R, description |-> NoDescription, options |-> <<Txt_a, Txt_A_sp>>],
    [title |-> Txt_blank, description |-> NoDescription, options |-> <<Txt_a, Txt_b>>],
    [title |-> Txt_Q, description |-> NoDescription, options |-> <<Txt_a>>],
    [title |-> Txt_Q, description |-> NoDescription, options |-> <<Txt_a, Txt_blank>>] }

\* ------------------------------------------------------------------ text
\* String.prototype.trim / SQL trim(): strip leading and trailing blanks.
RECURSIVE TrimLeft(_)
TrimLeft(s) ==
  IF s = << >> THEN << >>
  ELSE IF Head(s) = " " THEN TrimLeft(Tail(s)) ELSE s

RECURSIVE TrimRight(_)
TrimRight(s) ==
  IF s = << >> THEN << >>
  ELSE IF s[Len(s)] = " " THEN TrimRight(SubSeq(s, 1, Len(s) - 1)) ELSE s

Trim(s) == TrimRight(TrimLeft(s))

LowerChar(c) ==
  CASE c = "A" -> "a"
    [] c = "B" -> "b"
    [] c = "Q" -> "q"
    [] c = "R" -> "r"
    [] OTHER -> c

\* SQL lower()
Lower(s) == [i \in 1..Len(s) |-> LowerChar(s[i])]

\* lower(trim(option_text)), the key of unique_option_per_poll
NormalizedText(s) == Lower(Trim(s))

\* ------------------------------------------------------------------ state
VARIABLES
  polls,          \* rows of table polls: [id, title, description, created_by]
  poll_options,   \* rows of table poll_options: [id, poll_id, option_text]
  votes,          \* rows of table votes: [poll_id, poll_option_id, user_id]
  comments,       \* rows of table comments: [id, poll_id, user_id, content]
  nextId,         \* the next generated key of each table
  reqs,           \* the calls in flight or returned, one per slot
  started         \* number of calls begun so far

vars == <<polls, poll_options, votes, comments, nextId, reqs, started>>
store == <<polls, poll_options, votes, comments>>

\* ------------------------------------------------------------------ store errors
PgOk == "ok"
PgUniqueViolation == "23505"
PgForeignKeyViolation == "23503"
PgCheckViolation == "23514"
PgRlsViolation == "42501"
PgNoRows == "PGRST116"
\* the request names a column the table does not have
PgUnknownColumn == "PGRST204"
StoreFault == "store-unreachable"

PollRow(pollId) == CHOOSE p \in polls : p.id = pollId
PollExists(pollId) == \E p \in polls : p.id = pollId
OptionsOf(pollId) == {o \in poll_options : o.poll_id = pollId}
OptionExists(optionId) == \E o \in poll_options : o.id = optionId
\* (SELECT created_by FROM polls WHERE id = poll_id) = auth.uid()
OwnsPoll(uid, pollId) == \E p \in polls : p.id = pollId /\ p.created_by = uid

RangeOf(seq) == {seq[i] : i \in 1..Len(seq)}

\* INSERT INTO polls: CHECK (char_length(trim(title)) > 0), RLS WITH CHECK
\* (auth.uid() = created_by).
InsertPollError(uid, title, createdBy) ==
  IF uid = NoUser \/ uid # createdBy THEN PgRlsViolation
  ELSE IF Trim(title) = << >> THEN PgCheckViolation
  ELSE PgOk

\* INSERT INTO poll_options (one statement, several rows): RLS WITH CHECK (the
\* poll's creator), CHECK (char_length(trim(option_text)) > 0),
\* unique_option_per_poll on (poll_id, lower(trim(option_text))), and the
\* foreign key to polls.
InsertOptionsErrorMissingUnique(uid, pollId, texts) ==
  IF ~OwnsPoll(uid, pollId) THEN PgRlsViolation
  ELSE IF \E i \in 1..Len(texts) : Trim(texts[i]) = << >> THEN PgCheckViolation
  ELSE IF ~PollExists(pollId) THEN PgForeignKeyViolation
  ELSE PgOk

InsertOptionsError(uid, pollId, texts) ==
  IF ~OwnsPoll(uid, pollId) THEN PgRlsViolation
  ELSE IF \E i \in 1..Len(texts) : Trim(texts[i]) = << >> THEN PgCheckViolation
  ELSE IF \/ \E i, j \in 1..Len(texts) :
               i # j /\ NormalizedText(texts[i]) = NormalizedText(texts[j])
          \/ \E i \in 1..Len(texts), o \in OptionsOf(pollId) :
               NormalizedText(texts[i]) = NormalizedText(o.option_text)
       THEN PgUniqueViolation
  ELSE IF ~PollExists(pollId) THEN PgForeignKeyViolation
  ELSE PgOk

NewOptionRows(pollId, texts) ==
  { [id |-> nextId.option + i - 1, poll_id |-> pollId, option_text |-> texts[i]] :
      i \in 1..Len(texts) }

\* INSERT INTO votes: RLS WITH CHECK (auth.uid() = user_id),
\* unique_vote_per_poll on (poll_id, user_id), foreign keys to polls and to
\* poll_options (each on its own: nothing ties poll_option_id to poll_id).
InsertVoteErrorMissingUnique(uid, pollId, optionId, userId) ==
  IF uid = NoUser \/ uid # userId THEN PgRlsViolation
  ELSE IF ~PollExists(pollId) \/ ~OptionExists(optionId) THEN PgForeignKeyViolation
  ELSE PgOk

InsertVoteError(uid, pollId, optionId, userId) ==
  IF uid = NoUser \/ uid # userId THEN PgRlsViolation
  ELSE IF \E v \in votes : v.poll_id = pollId /\ v.user_id = userId
       THEN PgUniqueViolation
  ELSE IF ~PollExists(pollId) \/ ~OptionExists(optionId) THEN PgForeignKeyViolation
  ELSE PgOk

VotesAfterOptionDeleteNoCascade(gone) == votes

\* ON DELETE CASCADE from poll_options to votes.
VotesAfterOptionDelete(gone) == {v \in votes : v.poll_option_id \notin gone}

\* DELETE FROM poll_options WHERE poll_id = ...: RLS USING filters the rows
\* to those of polls the caller created; the votes on them go by cascade.
DeletedOptionIds(uid, pollId) ==
  {o.id : o \in {x \in OptionsOf(pollId) : OwnsPoll(uid, pollId)}}

\* DELETE FROM polls WHERE id = ...: RLS USING (auth.uid() = created_by).
DeletedPollIds(uid, pollId) ==
  {p.id : p \in {x \in polls : x.id = pollId /\ x.created_by = uid}}

\* UPDATE polls SET title, description WHERE id = ...: RLS USING filters.
UpdatedPolls(uid, pollId, title, description) ==
  { IF p.id = pollId /\ p.created_by = uid
      THEN [p EXCEPT !.title = title, !.description = description]
      ELSE p : p \in polls }

\* INSERT INTO comments: RLS WITH CHECK (auth.uid() = user_id) and the foreign
\* key to polls.
InsertCommentError(uid, pollId, userId) ==
  IF uid = NoUser \/ uid # userId THEN PgRlsViolation
  ELSE IF ~PollExists(pollId) THEN PgForeignKeyViolation
  ELSE PgOk

\* DELETE FROM comments WHERE id = ... AND user_id = ...: RLS USING
\* (auth.uid() = user_id).
DeletedCommentIds(uid, commentId, userId) ==
  {c.id : c \in {x \in comments : x.id = commentId /\ x.user_id = userId /\ x.user_id = uid}}

KnownCommentIds == {c.id : c \in comments} \cup {UnknownId}

\* The ids a caller can name: those of rows in the store, a well-formed id of
\* no row, and (for the poll) a string that is no UUID.
KnownPollIds == {p.id : p \in polls} \cup {UnknownId}
KnownOptionIds == {o.id : o \in poll_options} \cup {UnknownId}
VoteInputs == (KnownPollIds \X KnownOptionIds) \cup {<<BadId, UnknownId>>}
\* castVote is tried with the pairs a page offers (an option of the poll) and
\* one pair of ids that name nothing.
CastVoteInputs ==
  {a \in KnownPollIds \X KnownOptionIds :
     \E o \in poll_options : o.id = a[2] /\ o.poll_id = a[1]} \cup {<<BadId, UnknownId>>}

\* ------------------------------------------------------------------ requests
NoData == [title |-> << >>, description |-> << >>, options |-> << >>]
NoResult == [success |-> FALSE, error |-> "", detail |-> ""]
Ok == [success |-> TRUE, error |-> "", detail |-> ""]
\* { success: false, error }; detail is the store's message when the handler
\* copies it into the error text
Failure(msg, detail) == [success |-> FALSE, error |-> msg, detail |-> detail]

NoPoll == [id |-> 0, title |-> << >>, description |-> << >>, created_by |-> NoUser]

\* What a poll looks like in the store: its row, options, votes and comments.
PollView(pollId) ==
  [ poll |-> IF PollExists(pollId) THEN PollRow(pollId) ELSE NoPoll,
    options |-> OptionsOf(pollId),
    votes |-> {v \in votes : v.poll_id = pollId},
    comments |-> {c \in comments : c.poll_id = pollId} ]

NoView == [poll |-> NoPoll, options |-> {}, votes |-> {}, comments |-> {}]

\* A slot holds one call: the handler, where it stands (pc), its arguments and
\* session user, and once it returned (pc = "done") its result and the paths
\* it revalidated.  A handler runs from one store call to the next in one
\* action: what it does before its first store call (validation, reading the
\* session) touches nothing shared and is part of the action of that call.
IdleReq ==
  [ op |-> "none", pc |-> "idle", user |-> NoUser, poll |-> 0, option |-> 0, comment |-> 0,
    \* the user id a caller passed as an argument
    voter |-> NoUser,
    data |-> NoData, res |-> NoResult, reval |-> << >>,
    \* the rows a read returned
    out |-> << >>,
    \* history, read by no handler: the poll as it was when the call began,
    \* the call's ordinal among all calls, the ordinals of the calls that were
    \* in flight while it was, and whether the store failed one of its calls
    pre |-> NoView, seq |-> 0, overlap |-> {}, fault |-> FALSE ]

Path(p, id) == [path |-> p, id |-> id]

\* getCurrentUser(): the session's user, or null when there is no session or
\* the session lookup fails.
CurrentUserStale(sess) ==
  IF sess = NoUser THEN NoUser ELSE IF sess = SessionError THEN "u1" ELSE sess

CurrentUser(sess) == IF sess \in Users THEN sess ELSE NoUser

\* A slot is free when no call is in it or the call in it has ended: returned
\* a result ("done") or thrown to its caller ("thrown").
Free(r) == reqs[r].pc \in {"idle", "done", "thrown"}

\* Slots are interchangeable: a new call takes the first empty slot, or else
\* the first slot whose call has returned.
Least(S) == CHOOSE x \in S : \A y \in S : x <= y
NextSlot ==
  IF \E s \in Slots : reqs[s].pc = "idle"
    THEN Least({s \in Slots : reqs[s].pc = "idle"})
  ELSE IF \E s \in Slots : Free(s) THEN Least({s \in Slots : Free(s)})
  ELSE 0

\* The slots a new call may enter now.
Starting == IF started < MaxOps /\ NextSlot # 0 THEN {NextSlot} ELSE {}
CanBegin(r) == r \in Starting

\* A call enters the free slot r and ends its first action as rec.
Begin(r, rec) ==
  /\ started' = started + 1
  /\ reqs' = [s \in Slots |->
                IF s = r
                  THEN [rec EXCEPT !.seq = started + 1,
                                   !.overlap = {reqs[t].seq : t \in {x \in Slots \ {r} : ~Free(x)}}]
                ELSE IF ~Free(s) THEN [reqs[s] EXCEPT !.overlap = @ \cup {started + 1}]
                ELSE reqs[s]]

Step(r, rec) == reqs' = [reqs EXCEPT ![r] = rec] /\ started' = started

Done(q, result, paths) == [q EXCEPT !.pc = "done", !.res = result, !.reval = paths]

\* The call q ended by an exception that reached its caller.
Thrown(q) == [q EXCEPT !.pc = "thrown"]

\* A call of handler op before it read the session, and with its user.
Call(op) == [IdleReq EXCEPT !.op = op]
As(q, sess) == [q EXCEPT !.user = CurrentUser(sess)]
\* The call q after the store failed one of its calls (or did not).
Faulted(q, fault) == [q EXCEPT !.fault = @ \/ fault]

\* ------------------------------------------------------------------ submitVote
\* voteSchema: both ids are UUIDs.
VoteInputValid(pollId, optionId) == pollId # BadId /\ optionId # BadId

VoteRow(q) ==
  [poll_id |-> q.poll, poll_option_id |-> q.option, user_id |-> q.user]

VotePaths(pollId) == <<Path("/polls/[id]", pollId), Path("/polls", 0)>>

VoteInsertResultPlainUntranslated(err) ==
  IF err = PgOk THEN Ok
  ELSE Failure("Failed to submit vote: ", err)

\* vote-actions.ts: what submitVote returns for the insert's answer.
VoteInsertResultPlain(err) ==
  IF err = PgOk THEN Ok
  ELSE IF err = PgUniqueViolation
    THEN Failure("You have already voted on this poll.", "")
  ELSE Failure("Failed to submit vote: ", err)

VoteInsertReplacing(q, err) ==
  votes' = IF err = PgOk THEN votes \cup {VoteRow(q)}
           ELSE IF err = PgUniqueViolation
             THEN {v \in votes : v.poll_id # q.poll \/ v.user_id # q.user} \cup {VoteRow(q)}
           ELSE votes

\* The insert into votes, as both submitVote files do it; q is the call and
\* err the store's answer.
VoteInsert(q, err) ==
  votes' = IF err = PgOk THEN votes \cup {VoteRow(q)} ELSE votes

VoteDoneRevalidatingAlways(q, result) ==
  Done(q, result, VotePaths(q.poll))

VoteDone(q, result) ==
  Done(q, result, IF result.success THEN VotePaths(q.poll) ELSE << >>)

\* vote-actions.ts, submitVote up to its insert: validation and the session.
submitVote(r, pollId, optionId, sess) ==
  /\ CanBegin(r)
  /\ LET e == Call("submitVote")
         q == As([e EXCEPT !.poll = pollId, !.option = optionId,
                           !.pre = PollView(pollId)], sess)
     IN IF ~VoteInputValid(pollId, optionId)
          THEN Begin(r, Done(e, Failure("Invalid vote data provided.", ""), << >>))
        ELSE IF q.user = NoUser
          THEN Begin(r, Done(e, Failure("You must be logged in to vote", ""), << >>))
        ELSE Begin(r, [q EXCEPT !.pc = "insertVote"])
  /\ UNCHANGED <<polls, poll_options, votes, comments, nextId>>

\* vote-actions.ts, submitVote: its one store call, the insert.
submitVote_insert(r) ==
  /\ reqs[r].op = "submitVote" /\ reqs[r].pc = "insertVote"
  /\ \E fault \in BOOLEAN :
       LET q == Faulted(reqs[r], fault)
           err == IF fault THEN StoreFault
                  ELSE InsertVoteError(q.user, q.poll, q.option, q.user)
       IN /\ VoteInsert(q, err)
          /\ Step(r, VoteDone(q, VoteInsertResultPlain(err)))
  /\ UNCHANGED <<polls, poll_options, comments, nextId>>

CastVoteInsertErrorAccepting(uid, pollId, optionId, userId) == PgOk

\* castVote's insert into votes names the columns poll_id, option_id and
\* user_id; votes has no column option_id (it is poll_option_id, NOT NULL), so
\* the store refuses the request whatever the values and whoever asks.
CastVoteInsertError(uid, pollId, optionId, userId) == PgUnknownColumn

\* castVote (client side): its one store call, an insert with the user id the
\* caller passed, made under the caller's session; error.message goes back.
castVote(r, pollId, optionId, userId, sess) ==
  /\ CanBegin(r)
  /\ LET q == As([Call("castVote") EXCEPT !.poll = pollId, !.option = optionId,
                                          !.voter = userId], sess)
     IN \E fault \in BOOLEAN :
          LET err == IF fault THEN StoreFault
                     ELSE CastVoteInsertError(q.user, pollId, optionId, userId)
          IN /\ votes' = IF err = PgOk
                           THEN votes \cup {[poll_id |-> pollId, poll_option_id |-> optionId,
                                             user_id |-> userId]}
                         ELSE votes
             /\ Begin(r, Done(Faulted(q, fault),
                              IF err = PgOk THEN Ok ELSE Failure("", err), << >>))
  /\ UNCHANGED <<polls, poll_options, comments, nextId>>

\* select('id').eq('id', optionId).eq('poll_id', pollId).single()
OptionLookupError(pollId, optionId) ==
  IF \E o \in poll_options : o.id = optionId /\ o.poll_id = pollId
    THEN PgOk ELSE PgNoRows

\* The other submitVote, up to its first store call: the option must belong
\* to the poll.
submitVoteChecked(r, pollId, optionId, sess) ==
  /\ CanBegin(r)
  /\ LET e == Call("submitVoteChecked")
         q == As([e EXCEPT !.poll = pollId, !.option = optionId,
                           !.pre = PollView(pollId)], sess)
     IN IF ~VoteInputValid(pollId, optionId)
          THEN Begin(r, Done(e, Failure("Invalid vote data provided.", ""), << >>))
        ELSE IF q.user = NoUser
          THEN Begin(r, Done(e, Failure("You must be logged in to vote", ""), << >>))
        ELSE \E fault \in BOOLEAN :
               LET err == IF fault THEN StoreFault
                          ELSE OptionLookupError(pollId, optionId)
               IN Begin(r, IF err # PgOk
                             THEN Done(Faulted(q, fault),
                                       Failure("Selected option does not belong to this poll.", ""),
                                       << >>)
                             ELSE [q EXCEPT !.pc = "insertVote"])
  /\ UNCHANGED <<polls, poll_options, votes, comments, nextId>>

\* What the submitVote with the lookup returns for the insert's answer.
VoteInsertResultChecked(err) ==
  IF err = PgOk THEN Ok
  ELSE IF err = PgUniqueViolation
    THEN Failure("You have already voted on this poll.", "")
  ELSE IF err = PgForeignKeyViolation
    THEN Failure("Invalid poll or option.", "")
  ELSE Failure("Failed to submit vote.", "")

submitVoteChecked_insert(r) ==
  /\ reqs[r].op = "submitVoteChecked" /\ reqs[r].pc = "insertVote"
  /\ \E fault \in BOOLEAN :
       LET q == Faulted(reqs[r], fault)
           err == IF fault THEN StoreFault
                  ELSE InsertVoteError(q.user, q.poll, q.option, q.user)
       IN /\ VoteInsert(q, err)
          /\ Step(r, VoteDone(q, VoteInsertResultChecked(err)))
  /\ UNCHANGED <<polls, poll_options, comments, nextId>>

\* ------------------------------------------------------------------ createPoll
\* pollSchema / updatePollSchema: title trimmed and non-empty, at least two
\* options, each trimmed and non-empty.
PollDataValidTitleOnly(data) == Trim(data.title) # << >>

PollDataValid(data) ==
  /\ Trim(data.title) # << >>
  /\ Len(data.options) >= 2
  /\ \A i \in 1..Len(data.options) : Trim(data.options[i]) # << >>

\* validationResult.data: z.string().trim() hands on the trimmed strings.
Parsed(data) ==
  [ title |-> Trim(data.title),
    description |-> data.description,
    options |-> [i \in 1..Len(data.options) |-> Trim(data.options[i])] ]

\* create-poll.ts, createPoll up to its first store call: insert into polls
\* ... select('id').single()
createPoll(r, data, sess) ==
  /\ CanBegin(r)
  /\ LET e == Call("createPoll")
         q == As([e EXCEPT !.data = Parsed(data)], sess)
     IN IF ~PollDataValid(data)
          THEN /\ Begin(r, Done(e, Failure("Invalid poll data provided.", ""), << >>))
               /\ UNCHANGED <<polls, nextId>>
        ELSE IF q.user = NoUser
          THEN /\ Begin(r, Done(e, Failure("You must be logged in to create a poll", ""), << >>))
               /\ UNCHANGED <<polls, nextId>>
        ELSE \E fault \in BOOLEAN :
               LET err == IF fault THEN StoreFault
                          ELSE InsertPollError(q.user, q.data.title, q.user)
               IN IF err # PgOk
                    THEN /\ Begin(r, Done(Faulted(q, fault),
                                          Failure("Failed to create poll: ", err), << >>))
                         /\ UNCHANGED <<polls, nextId>>
                    ELSE /\ polls' = polls \cup
                               { [id |-> nextId.poll, title |-> q.data.title,
                                  description |-> q.data.description,
                                  created_by |-> q.user] }
                         /\ nextId' = [nextId EXCEPT !.poll = @ + 1]
                         /\ Begin(r, [q EXCEPT !.pc = "insertOptions", !.poll = nextId.poll])
  /\ UNCHANGED <<poll_options, votes, comments>>

\* insert into poll_options; on failure the handler goes on to delete the poll.
createPoll_insertOptions(r) ==
  /\ reqs[r].op = "createPoll" /\ reqs[r].pc = "insertOptions"
  /\ \E fault \in BOOLEAN :
       LET q == Faulted(reqs[r], fault)
           err == IF fault THEN StoreFault
                  ELSE InsertOptionsError(q.user, q.poll, q.data.options)
       IN IF err # PgOk
            THEN /\ Step(r, [q EXCEPT !.pc = "rollback",
                                      !.res = Failure("Failed to create poll options: ", err)])
                 /\ UNCHANGED <<poll_options, nextId>>
            ELSE /\ poll_options' = poll_options \cup NewOptionRows(q.poll, q.data.options)
                 /\ nextId' = [nextId EXCEPT !.option = @ + Len(q.data.options)]
                 /\ Step(r, Done(q, Ok, <<Path("/polls", 0)>>))
  /\ UNCHANGED <<polls, votes, comments>>

\* The store after DELETE FROM polls for the ids in gone, with its cascades
\* (polls -> poll_options -> votes, polls -> votes, polls -> comments).
PollsAfterDelete(gone) == {p \in polls : p.id \notin gone}
OptionsAfterPollDeleteNoCascade(gone) == poll_options

OptionsAfterPollDelete(gone) == {o \in poll_options : o.poll_id \notin gone}
VotesAfterPollDelete(gone) ==
  {v \in votes : v.poll_id \notin gone /\
                 \A o \in poll_options : o.id = v.poll_option_id => o.poll_id \notin gone}
CommentsAfterPollDelete(gone) == {c \in comments : c.poll_id \notin gone}

DeletePollRows(gone) ==
  /\ polls' = PollsAfterDelete(gone)
  /\ poll_options' = OptionsAfterPollDelete(gone)
  /\ votes' = VotesAfterPollDelete(gone)
  /\ comments' = CommentsAfterPollDelete(gone)

\* await supabase.from('polls').delete().eq('id', poll.id): its outcome is not
\* looked at, the handler returns the option error either way.
createPoll_rollback(r) ==
  /\ reqs[r].op = "createPoll" /\ reqs[r].pc = "rollback"
  /\ \E fault \in BOOLEAN :
       LET q == Faulted(reqs[r], fault)
       IN /\ DeletePollRows(IF fault THEN {} ELSE DeletedPollIds(q.user, q.poll))
          /\ Step(r, Done(q, q.res, << >>))
  /\ UNCHANGED nextId

\* The first createPoll of create-poll.ts, up to its first store call.  It reads
\* the session itself, outside its try block, and throws when there is none
\* (a failed lookup gives no session either); it validates nothing and
\* inserts the data as submitted.
createPollWithSession(r, data, sess) ==
  /\ CanBegin(r)
  /\ LET e == Call("createPollWithSession")
         q == As([e EXCEPT !.data = data], sess)
     IN IF CurrentUser(sess) = NoUser
          THEN /\ Begin(r, Thrown(e))
               /\ UNCHANGED <<polls, nextId>>
        ELSE \E fault \in BOOLEAN :
               LET err == IF fault THEN StoreFault
                          ELSE InsertPollError(q.user, q.data.title, q.user)
               IN IF err # PgOk
                    THEN /\ Begin(r, Done(Faulted(q, fault),
                                          Failure("Failed to create poll: ", err), << >>))
                         /\ UNCHANGED <<polls, nextId>>
                    ELSE /\ polls' = polls \cup
                               { [id |-> nextId.poll, title |-> q.data.title,
                                  description |-> q.data.description,
                                  created_by |-> q.user] }
                         /\ nextId' = [nextId EXCEPT !.poll = @ + 1]
                         /\ Begin(r, [q EXCEPT !.pc = "insertOptions", !.poll = nextId.poll])
  /\ UNCHANGED <<poll_options, votes, comments>>

\* Its insert into poll_options: an error is thrown inside the try block and
\* comes back as the result; the poll row stays.
createPollWithSession_insertOptions(r) ==
  /\ reqs[r].op = "createPollWithSession" /\ reqs[r].pc = "insertOptions"
  /\ \E fault \in BOOLEAN :
       LET q == Faulted(reqs[r], fault)
           err == IF fault THEN StoreFault
                  ELSE InsertOptionsError(q.user, q.poll, q.data.options)
       IN IF err # PgOk
            THEN /\ Step(r, Done(q, Failure("Failed to create poll options: ", err), << >>))
                 /\ UNCHANGED <<poll_options, nextId>>
            ELSE /\ poll_options' = poll_options \cup NewOptionRows(q.poll, q.data.options)
                 /\ nextId' = [nextId EXCEPT !.option = @ + Len(q.data.options)]
                 /\ Step(r, Done(q, Ok, <<Path("/polls", 0)>>))
  /\ UNCHANGED <<polls, votes, comments>>

\* ------------------------------------------------------------------ updatePoll, deletePoll
\* pollIdSchema: the id is a UUID.
PollIdValid(pollId) == pollId # BadId

\* revalidatePollPaths of the file with updatePollSchema.
revalidatePollPaths(pollId) ==
  <<Path("/", 0), Path("/polls", 0)>> \o
  (IF pollId # 0 THEN <<Path("/polls/[id]", pollId), Path("/polls/[id]/edit", pollId)>>
   ELSE << >>)

\* revalidatePollPaths of the file with verifyPollOwnership.
revalidatePollPathsOwned(pollId) ==
  <<Path("/", 0), Path("/polls", 0)>> \o
  (IF pollId # 0 THEN <<Path("/polls/[id]", pollId)>> ELSE << >>)

\* update polls set title, description where id = pollId, as the caller.
UpdateTitle(q) ==
  /\ polls' = UpdatedPolls(q.user, q.poll, q.data.title, q.data.description)
  /\ UNCHANGED <<poll_options, votes, comments, nextId>>

\* delete from poll_options where poll_id = pollId, as the caller.
DeleteOptions(q) ==
  /\ poll_options' = {o \in poll_options : o.id \notin DeletedOptionIds(q.user, q.poll)}
  /\ votes' = VotesAfterOptionDelete(DeletedOptionIds(q.user, q.poll))
  /\ UNCHANGED <<polls, comments, nextId>>

\* insert into poll_options the new set.
InsertOptions(q) ==
  /\ poll_options' = poll_options \cup NewOptionRows(q.poll, q.data.options)
  /\ nextId' = [nextId EXCEPT !.option = @ + Len(q.data.options)]
  /\ UNCHANGED <<polls, votes, comments>>

\* updatePoll (the one that leaves authorization to the policies), up to its
\* first store call: the update of the poll row.
updatePoll(r, pollId, data, sess) ==
  /\ CanBegin(r)
  /\ LET e == [Call("updatePoll") EXCEPT !.poll = pollId, !.pre = PollView(pollId)]
         q == As([e EXCEPT !.data = Parsed(data)], sess)
     IN IF ~PollIdValid(pollId) \/ ~PollDataValid(data)
          THEN /\ Begin(r, Done(e, Failure("Invalid data provided.", ""), << >>))
               /\ UNCHANGED store /\ UNCHANGED nextId
        ELSE IF q.user = NoUser
          THEN /\ Begin(r, Done(e, Failure("You must be logged in to update a poll", ""), << >>))
               /\ UNCHANGED store /\ UNCHANGED nextId
        ELSE \E fault \in BOOLEAN :
               IF fault
                 THEN /\ Begin(r, Done(Faulted(q, fault),
                                       Failure("Failed to update poll: ", StoreFault), << >>))
                      /\ UNCHANGED store /\ UNCHANGED nextId
                 ELSE /\ UpdateTitle(q)
                      /\ Begin(r, [q EXCEPT !.pc = "deleteOptions"])

updatePoll_deleteOptions(r) ==
  /\ reqs[r].op = "updatePoll" /\ reqs[r].pc = "deleteOptions"
  /\ \E fault \in BOOLEAN :
       LET q == Faulted(reqs[r], fault)
       IN IF fault
            THEN /\ Step(r, Done(q, Failure("Failed to delete existing options: ", StoreFault), << >>))
                 /\ UNCHANGED store /\ UNCHANGED nextId
            ELSE /\ DeleteOptions(q)
                 /\ Step(r, [q EXCEPT !.pc = "insertOptions"])

updatePoll_insertOptions(r) ==
  /\ reqs[r].op = "updatePoll" /\ reqs[r].pc = "insertOptions"
  /\ \E fault \in BOOLEAN :
       LET q == Faulted(reqs[r], fault)
           err == IF fault THEN StoreFault
                  ELSE InsertOptionsError(q.user, q.poll, q.data.options)
       IN IF err # PgOk
            THEN /\ Step(r, Done(q, Failure("Failed to create new poll options: ", err), << >>))
                 /\ UNCHANGED store /\ UNCHANGED nextId
            ELSE /\ InsertOptions(q)
                 /\ Step(r, Done(q, Ok, revalidatePollPaths(q.poll)))

\* deletePoll (the one that leaves authorization to the policies): its one
\* store call is the delete, which the policy filters to the caller's polls.
deletePoll(r, pollId, sess) ==
  /\ CanBegin(r)
  /\ LET e == [Call("deletePoll") EXCEPT !.poll = pollId, !.pre = PollView(pollId)]
         q == As(e, sess)
     IN IF ~PollIdValid(pollId)
          THEN /\ Begin(r, Done(e, Failure("Invalid poll ID provided.", ""), << >>))
               /\ UNCHANGED store
        ELSE IF q.user = NoUser
          THEN /\ Begin(r, Done(e, Failure("You must be logged in to delete a poll", ""), << >>))
               /\ UNCHANGED store
        ELSE \E fault \in BOOLEAN :
               IF fault
                 THEN /\ Begin(r, Done(Faulted(q, fault),
                                       Failure("Failed to delete poll: ", StoreFault), << >>))
                      /\ UNCHANGED store
                 ELSE /\ DeletePollRows(DeletedPollIds(q.user, q.poll))
                      /\ Begin(r, Done(q, Ok, revalidatePollPaths(0)))
  /\ UNCHANGED nextId

\* validatePollData: the first complaint, or "" when the data is fine.
validatePollData(data) ==
  IF Trim(data.title) = << >> THEN "Poll title is required"
  ELSE IF Len(data.options) < 2 THEN "At least two options are required"
  ELSE IF \E i \in 1..Len(data.options) : Trim(data.options[i]) = << >>
    THEN "Option text cannot be empty"
  ELSE ""

\* verifyPollOwnership: the session, then select created_by ... single().
verifyPollOwnership(user, pollId, fault) ==
  IF user = NoUser THEN "You must be logged in to manage polls"
  ELSE IF fault \/ ~PollExists(pollId) THEN "Poll not found"
  ELSE IF PollRow(pollId).created_by # user THEN "You can only manage your own polls"
  ELSE ""

\* updatePoll (the one with verifyPollOwnership), up to its first store call:
\* the ownership lookup.  It writes the data as submitted, untrimmed.
updatePollOwned(r, pollId, data, sess) ==
  /\ CanBegin(r)
  /\ LET e == [Call("updatePollOwned") EXCEPT !.poll = pollId, !.pre = PollView(pollId)]
         q == As([e EXCEPT !.data = data], sess)
     IN IF validatePollData(data) # ""
          THEN Begin(r, Done(e, Failure(validatePollData(data), ""), << >>))
        ELSE IF q.user = NoUser
          THEN Begin(r, Done(e, Failure(verifyPollOwnership(q.user, pollId, FALSE), ""), << >>))
        ELSE \E fault \in BOOLEAN :
               LET why == verifyPollOwnership(q.user, pollId, fault)
               IN Begin(r, IF why # "" THEN Done(Faulted(q, fault), Failure(why, ""), << >>)
                           ELSE [q EXCEPT !.pc = "updatePoll"])
  /\ UNCHANGED store /\ UNCHANGED nextId

updatePollOwned_update(r) ==
  /\ reqs[r].op = "updatePollOwned" /\ reqs[r].pc = "updatePoll"
  /\ \E fault \in BOOLEAN :
       LET q == Faulted(reqs[r], fault)
       IN IF fault
            THEN /\ Step(r, Done(q, Failure("Failed to update poll", ""), << >>))
                 /\ UNCHANGED store /\ UNCHANGED nextId
            ELSE /\ UpdateTitle(q)
                 /\ Step(r, [q EXCEPT !.pc = "deleteOptions"])

updatePollOwned_deleteOptions(r) ==
  /\ reqs[r].op = "updatePollOwned" /\ reqs[r].pc = "deleteOptions"
  /\ \E fault \in BOOLEAN :
       LET q == Faulted(reqs[r], fault)
       IN IF fault
            THEN /\ Step(r, Done(q, Failure("Failed to update poll options", ""), << >>))
                 /\ UNCHANGED store /\ UNCHANGED nextId
            ELSE /\ DeleteOptions(q)
                 /\ Step(r, [q EXCEPT !.pc = "insertOptions"])

updatePollOwned_insertOptions(r) ==
  /\ reqs[r].op = "updatePollOwned" /\ reqs[r].pc = "insertOptions"
  /\ \E fault \in BOOLEAN :
       LET q == Faulted(reqs[r], fault)
           err == IF fault THEN StoreFault
                  ELSE InsertOptionsError(q.user, q.poll, q.data.options)
       IN IF err # PgOk
            THEN /\ Step(r, Done(q, Failure("Failed to create poll options", ""), << >>))
                 /\ UNCHANGED store /\ UNCHANGED nextId
            ELSE /\ InsertOptions(q)
                 /\ Step(r, Done(q, Ok, revalidatePollPathsOwned(q.poll)))

\* deletePoll (the one with verifyPollOwnership), up to the ownership lookup.
deletePollOwned(r, pollId, sess) ==
  /\ CanBegin(r)
  /\ LET e == [Call("deletePollOwned") EXCEPT !.poll = pollId, !.pre = PollView(pollId)]
         q == As(e, sess)
     IN IF q.user = NoUser
          THEN Begin(r, Done(e, Failure(verifyPollOwnership(q.user, pollId, FALSE), ""), << >>))
        ELSE \E fault \in BOOLEAN :
               LET why == verifyPollOwnership(q.user, pollId, fault)
               IN Begin(r, IF why # "" THEN Done(Faulted(q, fault), Failure(why, ""), << >>)
                           ELSE [q EXCEPT !.pc = "deletePoll"])
  /\ UNCHANGED store /\ UNCHANGED nextId

deletePollOwned_delete(r) ==
  /\ reqs[r].op = "deletePollOwned" /\ reqs[r].pc = "deletePoll"
  /\ \E fault \in BOOLEAN :
       LET q == Faulted(reqs[r], fault)
       IN IF fault
            THEN /\ Step(r, Done(q, Failure("Failed to delete poll", ""), << >>))
                 /\ UNCHANGED store
            ELSE /\ DeletePollRows(DeletedPollIds(q.user, q.poll))
                 /\ Step(r, Done(q, Ok, revalidatePollPathsOwned(0)))
  /\ UNCHANGED nextId

\* ------------------------------------------------------------------ comments
\* createCommentSchema: the poll id is a UUID, the content has 1 to 1000
\* characters (as submitted: the schema does not trim).
CommentInputValidNoMax(pollId, content) ==
  pollId # BadId /\ Len(content) >= 1

CommentInputValid(pollId, content) ==
  pollId # BadId /\ Len(content) >= 1 /\ Len(content) <= 1000

\* What the comment handlers return when getCurrentUser gives no user:
\* authError || 'User not authenticated'.
NotAuthenticated(sess) ==
  IF sess = SessionError THEN Failure(SessionError, "")
  ELSE Failure("User not authenticated", "")

\* createComment: validation, the session, and its one store call, the insert.
createComment(r, pollId, content, sess) ==
  /\ CanBegin(r)
  /\ LET e == Call("createComment")
         q == As([e EXCEPT !.poll = pollId, !.data = [NoData EXCEPT !.description = content]], sess)
     IN IF ~CommentInputValid(pollId, content)
          THEN /\ Begin(r, Done([e EXCEPT !.poll = pollId],
                                 Failure("Validation failed", ""), << >>))
               /\ UNCHANGED <<comments, nextId>>
        ELSE IF CurrentUser(sess) = NoUser
          THEN /\ Begin(r, Done(e, NotAuthenticated(sess), << >>))
               /\ UNCHANGED <<comments, nextId>>
        ELSE \E fault \in BOOLEAN :
               LET err == IF fault THEN StoreFault
                          ELSE InsertCommentError(q.user, pollId, q.user)
               IN IF err # PgOk
                    THEN /\ Begin(r, Done(Faulted(q, fault), Failure("", err), << >>))
                         /\ UNCHANGED <<comments, nextId>>
                    ELSE /\ comments' = comments \cup
                               { [id |-> nextId.comment, poll_id |-> pollId,
                                  user_id |-> q.user, content |-> content] }
                         /\ nextId' = [nextId EXCEPT !.comment = @ + 1]
                         /\ Begin(r, Done([q EXCEPT !.comment = nextId.comment], Ok,
                                          <<Path("/polls/[id]", pollId)>>))
  /\ UNCHANGED <<polls, poll_options, votes>>

\* deleteComment: the session, and its one store call, the delete of the
\* comment with that id and the caller as user_id.
deleteComment(r, commentId, sess) ==
  /\ CanBegin(r)
  /\ LET e == Call("deleteComment")
         q == As([e EXCEPT !.comment = commentId], sess)
     IN IF CurrentUser(sess) = NoUser
          THEN /\ Begin(r, Done(e, NotAuthenticated(sess), << >>))
               /\ UNCHANGED comments
        ELSE \E fault \in BOOLEAN :
               IF fault
                 THEN /\ Begin(r, Done(Faulted(q, fault), Failure("", StoreFault), << >>))
                      /\ UNCHANGED comments
                 ELSE /\ comments' = {c \in comments :
                                        c.id \notin DeletedCommentIds(q.user, commentId, q.user)}
                      /\ Begin(r, Done(q, Ok, << >>))
  /\ UNCHANGED <<polls, poll_options, votes, nextId>>

\* ------------------------------------------------------------------ reads
RECURSIVE Sum(_, _)
Sum(f, S) ==
  IF S = {} THEN 0
  ELSE LET x == CHOOSE y \in S : TRUE IN f[x] + Sum(f, S \ {x})

\* get_options_with_vote_counts(poll_id_param): for each option of the poll,
\* the number of votes joined to it by poll_option_id.
get_options_with_vote_counts(pollId) ==
  [ id \in {o.id : o \in OptionsOf(pollId)} |->
      Cardinality({v \in votes : v.poll_option_id = id}) ]

\* ORDER BY po.id: the ids in ascending order.
RECURSIVE SortedIds(_)
SortedIds(S) ==
  IF S = {} THEN << >> ELSE <<Least(S)>> \o SortedIds(S \ {Least(S)})

OptionRow(optionId) == CHOOSE o \in poll_options : o.id = optionId

formattedOptionsInnerJoin(pollId) ==
  LET counts == get_options_with_vote_counts(pollId)
      ids == SortedIds({id \in DOMAIN counts : counts[id] > 0})
  IN [i \in 1..Len(ids) |->
        [id |-> ids[i], text |-> OptionRow(ids[i]).option_text,
         poll_id |-> OptionRow(ids[i]).poll_id, votes |-> counts[ids[i]]]]

\* getPollById: the rows of get_options_with_vote_counts in the order it
\* returns them, as { id, text, poll_id, votes }.
formattedOptions(pollId) ==
  LET counts == get_options_with_vote_counts(pollId)
      ids == SortedIds(DOMAIN counts)
  IN [i \in 1..Len(ids) |->
        [id |-> ids[i], text |-> OptionRow(ids[i]).option_text,
         poll_id |-> OptionRow(ids[i]).poll_id, votes |-> counts[ids[i]]]]

\* getPollById up to its first store call: select ... from polls ... single().
getPollById(r, id) ==
  /\ CanBegin(r)
  /\ LET q == [Call("getPollById") EXCEPT !.poll = id]
     IN \E fault \in BOOLEAN :
          Begin(r, IF fault \/ ~PollExists(id)
                      THEN Done(Faulted(q, fault), Failure("Failed to fetch poll", ""), << >>)
                    ELSE [q EXCEPT !.pc = "rpc"])
  /\ UNCHANGED store /\ UNCHANGED nextId

\* getPollById: rpc('get_options_with_vote_counts'), then the formatting.
getPollById_rpc(r) ==
  /\ reqs[r].op = "getPollById" /\ reqs[r].pc = "rpc"
  /\ \E fault \in BOOLEAN :
       LET q == Faulted(reqs[r], fault)
       IN Step(r, IF fault THEN Done(q, Failure("Failed to fetch poll options", ""), << >>)
                  ELSE [Done(q, Ok, << >>) EXCEPT !.out = formattedOptions(q.poll)])
  /\ UNCHANGED store /\ UNCHANGED nextId

\* getPollById: total_votes is the sum of the options' counts.
total_votes(pollId) ==
  Sum(get_options_with_vote_counts(pollId), DOMAIN get_options_with_vote_counts(pollId))

\* getPolls: votes(count), the vote rows that reference the poll.
votes_count(pollId) == Cardinality({v \in votes : v.poll_id = pollId})

\* getPolls: poll_options(count), the option rows that reference the poll.
options_count(pollId) == Cardinality({o \in poll_options : o.poll_id = pollId})

\* ------------------------------------------------------------------ specification
\* The stores a run may start from: the empty store after the schema is set
\* up, and stores that createPoll, submitVote and createComment calls lead to.
SeedPolls ==
  { [id |-> 1, title |-> Txt_Q, description |-> Txt_d, created_by |-> "u1"],
    [id |-> 2, title |-> Txt_Q, description |-> Txt_d, created_by |-> "u2"] }
SeedOptions ==
  { [id |-> 1, poll_id |-> 1, option_text |-> Txt_a],
    [id |-> 2, poll_id |-> 1, option_text |-> Txt_b],
    [id |-> 3, poll_id |-> 2, option_text |-> Txt_a],
    [id |-> 4, poll_id |-> 2, option_text |-> Txt_b] }
SeedVotes == { [poll_id |-> 1, poll_option_id |-> 1, user_id |-> "u2"] }
SeedComments == { [id |-> 1, poll_id |-> 1, user_id |-> "u2", content |-> Txt_c] }

Init ==
  /\ \/ /\ polls = {} /\ poll_options = {} /\ votes = {} /\ comments = {}
        /\ nextId = [poll |-> 1, option |-> 1, comment |-> 1]
     \/ /\ polls = SeedPolls /\ poll_options = SeedOptions
        /\ votes = SeedVotes /\ comments = SeedComments
        /\ nextId = [poll |-> 3, option |-> 5, comment |-> 2]
  /\ reqs = [s \in Slots |-> IdleReq]
  /\ started = 0

Next ==
  \/ \E r \in Starting, a \in VoteInputs, u \in Sessions : submitVote(r, a[1], a[2], u)
  \/ \E r \in Starting, a \in VoteInputs, u \in Sessions : submitVoteChecked(r, a[1], a[2], u)
  \/ \E r \in Slots : submitVote_insert(r)
  \/ \E r \in Starting, a \in CastVoteInputs, v \in Users, u \in Sessions :
       castVote(r, a[1], a[2], v, u)
  \/ \E r \in Slots : submitVoteChecked_insert(r)
  \/ \E r \in Starting, d \in PollInputs, u \in Sessions : createPoll(r, d, u)
  \/ \E r \in Slots : createPoll_insertOptions(r)
  \/ \E r \in Slots : createPoll_rollback(r)
  \/ \E r \in Starting, d \in PollInputs, u \in Sessions : createPollWithSession(r, d, u)
  \/ \E r \in Slots : createPollWithSession_insertOptions(r)
  \/ \E r \in Starting, p \in KnownPollIds \cup {BadId}, d \in PollInputs, u \in Sessions :
       updatePoll(r, p, d, u)
  \/ \E r \in Slots : updatePoll_deleteOptions(r)
  \/ \E r \in Slots : updatePoll_insertOptions(r)
  \/ \E r \in Starting, p \in KnownPollIds \cup {BadId}, u \in Sessions : deletePoll(r, p, u)
  \/ \E r \in Starting, p \in KnownPollIds, d \in PollInputs, u \in Sessions :
       updatePollOwned(r, p, d, u)
  \/ \E r \in Slots : updatePollOwned_update(r)
  \/ \E r \in Slots : updatePollOwned_deleteOptions(r)
  \/ \E r \in Slots : updatePollOwned_insertOptions(r)
  \/ \E r \in Starting, p \in KnownPollIds, u \in Sessions : deletePollOwned(r, p, u)
  \/ \E r \in Slots : deletePollOwned_delete(r)
  \/ \E r \in Starting, p \in KnownPollIds \cup {BadId}, c \in CommentInputs, u \in Sessions :
       createComment(r, p, c, u)
  \/ \E r \in Starting, c \in KnownCommentIds, u \in Sessions : deleteComment(r, c, u)
  \/ \E r \in Starting, p \in KnownPollIds : getPollById(r, p)
  \/ \E r \in Slots : getPollById_rpc(r)

Spec == Init /\ [][Next]_vars

\* ------------------------------------------------------------------ properties
Returned == {r \in Slots : reqs[r].pc = "done"}
IsVote(q) == q.op \in {"submitVote", "submitVoteChecked"}
IsUpdate(q) == q.op \in {"updatePoll", "updatePollOwned"}
IsDelete(q) == q.op \in {"deletePoll", "deletePollOwned"}
AlreadyVoted == "You have already voted on this poll."
AuthorizationErrors ==
  { "You can only manage your own polls", "You can only update your own polls",
    "You can only delete your own polls" }

\* No call was in flight while q was, and none began after it.
Undisturbed(q) == q.overlap = {} /\ q.seq = started
\* When q began, the option it names was an option of the poll it names.
OptionOfPollAtStart(q) == \E o \in q.pre.options : o.id = q.option
\* When q began, its user had no vote on the poll it names.
HadNotVoted(q) == \A v \in q.pre.votes : v.user_id # q.user
VotesOf(pollId, userId) == {v \in votes : v.poll_id = pollId /\ v.user_id = userId}

\* C1: in every reachable state there is at most one vote row for each
\* (poll_id, user_id) pair.
C1_OneVotePerPollAndVoter ==
  \A v, w \in votes : (v.poll_id = w.poll_id /\ v.user_id = w.user_id) => v = w

\* A user who has a vote on a poll voted again, for another option, and was
\* told so.
C1_SecondVoteRefused ==
  \E r \in Returned :
    /\ IsVote(reqs[r]) /\ reqs[r].res.error = AlreadyVoted
    /\ \E v \in VotesOf(reqs[r].poll, reqs[r].user) : v.poll_option_id # reqs[r].option

\* Calls a and b are two votes of one user on one poll that were in flight
\* together and with no other call, each for an option of the poll, the user
\* having no vote on it before, and the store failed neither.
ConcurrentVotes(a, b) ==
  /\ a # b /\ a \in Returned /\ b \in Returned
  /\ IsVote(reqs[a]) /\ IsVote(reqs[b])
  /\ reqs[a].user # NoUser /\ reqs[a].user = reqs[b].user
  /\ reqs[a].poll = reqs[b].poll
  /\ reqs[a].overlap = {reqs[b].seq} /\ reqs[b].overlap = {reqs[a].seq}
  /\ ~reqs[a].fault /\ ~reqs[b].fault
  /\ OptionOfPollAtStart(reqs[a]) /\ OptionOfPollAtStart(reqs[b])
  /\ HadNotVoted(reqs[a]) /\ HadNotVoted(reqs[b])

\* C2: of two concurrent votes of one user on one poll, whatever the order of
\* their steps, one returns success and the other "You have already voted on
\* this poll.", and the store then holds one vote of that user on that poll.
C2_OneOfTwoConcurrentVotesWins ==
  \A a, b \in Slots :
    ConcurrentVotes(a, b) =>
      /\ \/ reqs[a].res = Ok /\ reqs[b].res = Failure(AlreadyVoted, "")
         \/ reqs[b].res = Ok /\ reqs[a].res = Failure(AlreadyVoted, "")
      /\ (started = reqs[a].seq \/ started = reqs[b].seq) =>
           Cardinality(VotesOf(reqs[a].poll, reqs[a].user)) = 1

\* Two such votes have both returned, the one that began first being refused.
C2_BothReturned ==
  \E a, b \in Slots :
    /\ ConcurrentVotes(a, b)
    /\ reqs[a].seq < reqs[b].seq
    /\ reqs[a].res.error = AlreadyVoted /\ reqs[b].res.success

\* C3: a vote by a logged-in user for an option that is not an option of the
\* poll (be it an option of another poll) fails and leaves no vote row.
C3_ForeignOptionRejected ==
  \A r \in Returned :
    (/\ IsVote(reqs[r]) /\ reqs[r].user # NoUser
     /\ ~OptionOfPollAtStart(reqs[r])) =>
      /\ ~reqs[r].res.success
      /\ VoteRow(reqs[r]) \notin votes

\* C4: every vote row's option exists and is an option of the vote's poll.
C4_VoteOptionBelongsToPoll ==
  \A v \in votes :
    \E o \in poll_options : o.id = v.poll_option_id /\ o.poll_id = v.poll_id

\* C5: for every poll, the options' vote counts add up to total_votes, and
\* total_votes is the number of vote rows with the poll's id.
C5_TallyMatchesVoteRows ==
  \A p \in polls :
    /\ Sum(get_options_with_vote_counts(p.id), DOMAIN get_options_with_vote_counts(p.id))
         = total_votes(p.id)
    /\ total_votes(p.id) = Cardinality({v \in votes : v.poll_id = p.id})

\* C6: once an update of a poll has returned success (nothing else running),
\* the poll's options are the submitted ones, every count and the total are
\* zero, and no vote row the poll had before the call is left.
C6_UpdateReplacesOptionsAndVotes ==
  \A r \in Returned :
    (IsUpdate(reqs[r]) /\ reqs[r].res.success /\ Undisturbed(reqs[r])) =>
      /\ {o.option_text : o \in OptionsOf(reqs[r].poll)} = RangeOf(reqs[r].data.options)
      /\ \A id \in DOMAIN get_options_with_vote_counts(reqs[r].poll) :
           get_options_with_vote_counts(reqs[r].poll)[id] = 0
      /\ total_votes(reqs[r].poll) = 0
      /\ \A v \in reqs[r].pre.votes : v \notin votes

\* C7: an update or delete of an existing poll by a logged-in user who did not
\* create it returns an authorization failure, never success, and leaves the
\* poll, its options, votes and comments as they were.
C7_NonOwnerRefused ==
  \A r \in Returned :
    (/\ IsUpdate(reqs[r]) \/ IsDelete(reqs[r])
     /\ reqs[r].user # NoUser /\ ~reqs[r].fault
     /\ reqs[r].pre.poll # NoPoll /\ reqs[r].pre.poll.created_by # reqs[r].user) =>
      /\ ~reqs[r].res.success
      /\ reqs[r].res.error \in AuthorizationErrors
      /\ Undisturbed(reqs[r]) => PollView(reqs[r].poll) = reqs[r].pre

\* C8: once createPoll has returned the failure of its option insert, the
\* poll row it had inserted is not in the store.
C8_FailedCreateLeavesNoPoll ==
  \A r \in Returned :
    (reqs[r].op = "createPoll" /\ reqs[r].res.error = "Failed to create poll options: ") =>
      ~PollExists(reqs[r].poll)

\* Call v is a returned vote for an option its poll had, and an update of that
\* poll was the one call in flight with it.
VoteRacedUpdate(v, w) ==
  /\ v \in Returned /\ IsVote(reqs[v]) /\ reqs[v].user # NoUser
  /\ OptionOfPollAtStart(reqs[v])
  /\ w # v /\ IsUpdate(reqs[w]) /\ reqs[w].poll = reqs[v].poll
  /\ reqs[v].overlap = {reqs[w].seq}

OptionGoneErrors ==
  { Failure("Selected option does not belong to this poll.", ""),
    Failure("Invalid poll or option.", ""),
    Failure("Failed to submit vote: ", PgForeignKeyViolation) }

\* C9: no vote row is ever attached to a deleted option; a vote that returned
\* success has its row in the store unless the row went with its option (the
\* vote came before the delete); and a vote that raced an update of its poll
\* and failed left no row, its error saying that the option is not there.
C9_VoteAgainstUpdateIsClean ==
  /\ \A v \in votes : OptionExists(v.poll_option_id)
  /\ \A r \in Returned :
       (IsVote(reqs[r]) /\ OptionOfPollAtStart(reqs[r]) /\ reqs[r].res.success) =>
         (VoteRow(reqs[r]) \in votes \/ ~OptionExists(reqs[r].option))
  /\ \A v, w \in Slots :
       (VoteRacedUpdate(v, w) /\ ~reqs[v].res.success) =>
         /\ (started = reqs[v].seq \/ started = reqs[w].seq) =>
              VoteRow(reqs[v]) \notin (votes \ reqs[v].pre.votes)
         /\ (~reqs[v].fault /\ HadNotVoted(reqs[v])) => reqs[v].res \in OptionGoneErrors

\* A vote passed its option lookup, the update then deleted the option, and the
\* vote's insert was refused.
C9_VoteLostRace ==
  \E v, w \in Slots :
    /\ VoteRacedUpdate(v, w)
    /\ reqs[v].res = Failure("Invalid poll or option.", "")
    /\ ~OptionExists(reqs[v].option)
    /\ VoteRow(reqs[v]) \notin votes

\* C10: an update that returned failure (nothing else running) left the poll's
\* row, options, votes and comments as they were before the call.
C10_FailedUpdateChangesNothing ==
  \A r \in Returned :
    (IsUpdate(reqs[r]) /\ ~reqs[r].res.success /\ Undisturbed(reqs[r])) =>
      PollView(reqs[r].poll) = reqs[r].pre

\* What the claims say of the submitted poll data.
BlankTitle(d) == \A i \in 1..Len(d.title) : d.title[i] = " "
TooFewOptions(d) == Len(d.options) < 2
HasBlankOption(d) ==
  \E i \in 1..Len(d.options) : \A k \in 1..Len(d.options[i]) : d.options[i][k] = " "
HasEqualOptions(d) ==
  \E i, j \in 1..Len(d.options) :
    i # j /\ NormalizedText(d.options[i]) = NormalizedText(d.options[j])

ValidationMessages ==
  { "Invalid poll data provided.", "Invalid data provided.", "Poll title is required",
    "At least two options are required", "Option text cannot be empty" }

\* The step ends the call in slot r with a failure whose message is in msgs.
RefusedWith(r, msgs) ==
  /\ reqs'[r].pc = "done"
  /\ ~reqs'[r].res.success
  /\ reqs'[r].res.error \in msgs

AnyPollId == KnownPollIds \cup {BadId}

\* The step is the first step of a call (every handler's first action counts
\* the call in started, and no other action does), and the call it puts in
\* slot r is a call of one of the handlers ops.
FirstStep == started' = started + 1
Entered(r, ops) == reqs'[r].op \in ops

C12_EqualOptionsRefusedBeforeStorage ==
  [][FirstStep =>
       \A r \in Starting, u \in Users :
         \A d \in {x \in PollInputs : HasEqualOptions(x)} :
           /\ (Entered(r, {"createPoll"}) /\ createPoll(r, d, u)) =>
                RefusedWith(r, ValidationMessages) /\ UNCHANGED <<store, nextId>>
           /\ Entered(r, {"updatePoll"}) =>
                \A p \in AnyPollId :
                  (OwnsPoll(u, p) /\ updatePoll(r, p, d, u)) =>
                    RefusedWith(r, ValidationMessages) /\ UNCHANGED <<store, nextId>>
           /\ Entered(r, {"updatePollOwned"}) =>
                \A p \in AnyPollId :
                  (OwnsPoll(u, p) /\ updatePollOwned(r, p, d, u)) =>
                    RefusedWith(r, ValidationMessages) /\ UNCHANGED <<store, nextId>>]_vars

\* C13: in every reachable state no two option rows of one poll have texts
\* that are equal after trimming and case folding.
C13_OptionsDistinctPerPoll ==
  \A o, w \in poll_options :
    (o.poll_id = w.poll_id /\ NormalizedText(o.option_text) = NormalizedText(w.option_text))
      => o = w

\* A createPoll or an update submitted such options and the store refused the
\* insert as a duplicate.
C13_DuplicateOptionRefused ==
  \E r \in Returned :
    /\ reqs[r].op = "createPoll" \/ IsUpdate(reqs[r])
    /\ HasEqualOptions(reqs[r].data)
    /\ reqs[r].res.detail = PgUniqueViolation

\* Call q is a delete, by the poll's creator, of a poll that existed, and it
\* returned success.
OwnerDeleted(q) ==
  /\ IsDelete(q) /\ q.pc = "done" /\ q.res.success
  /\ q.pre.poll # NoPoll /\ q.pre.poll.created_by = q.user

RowsOfPoll(pollId) ==
  OptionsOf(pollId) \cup {v \in votes : v.poll_id = pollId}
    \cup {c \in comments : c.poll_id = pollId}

\* C14: once the creator's delete of a poll has returned success, the poll
\* row and every option, vote and comment row of that poll are gone; and they
\* go in one step: in no reachable state does an option, vote or comment row
\* name a poll that is not in the store.
C14_DeleteRemovesPollAndRowsAtOnce ==
  /\ \A r \in Slots :
       OwnerDeleted(reqs[r]) =>
         ~PollExists(reqs[r].poll) /\ RowsOfPoll(reqs[r].poll) = {}
  /\ \A o \in poll_options : PollExists(o.poll_id)
  /\ \A v \in votes : PollExists(v.poll_id)
  /\ \A c \in comments : PollExists(c.poll_id)

\* The creator deleted a poll that had options, a vote and a comment.
C14_PollWithRowsDeleted ==
  \E r \in Slots :
    /\ OwnerDeleted(reqs[r])
    /\ reqs[r].pre.options # {} /\ reqs[r].pre.votes # {} /\ reqs[r].pre.comments # {}

LoggedInMessages ==
  { "You must be logged in to create a poll", "You must be logged in to update a poll",
    "You must be logged in to delete a poll", "You must be logged in to vote",
    "You must be logged in to manage polls" }

WellFormedPollData(d) == ~(BlankTitle(d) \/ TooFewOptions(d) \/ HasBlankOption(d))

\* The step ends the call in slot r with a failure and writes nothing; when
\* wellFormed, the failure is the authentication failure.
RefusedUnauthenticated(r, wellFormed) ==
  /\ reqs'[r].pc = "done" /\ ~reqs'[r].res.success
  /\ wellFormed => reqs'[r].res.error \in LoggedInMessages
  /\ UNCHANGED <<store, nextId>>

C16_VoteAddsItsRowOrNothing ==
  [][\A r \in Slots :
       /\ (IsVote(reqs[r]) /\ reqs[r].pc = "insertVote" /\ reqs'[r].pc = "done") =>
            IF reqs'[r].res.success
              THEN /\ VoteRow(reqs[r]) \notin votes
                   /\ votes' = votes \cup {VoteRow(reqs[r])}
                   /\ UNCHANGED <<polls, poll_options, comments>>
              ELSE UNCHANGED store
       /\ (FirstStep /\ r \in Starting /\ IsVote(reqs'[r])) => UNCHANGED store]_vars

\* One vote was cast and a second vote of that voter on the poll, for another
\* option, was refused as a duplicate; the first one's row is there.
C16_FirstVoteStands ==
  \E a, b \in Returned :
    /\ IsVote(reqs[a]) /\ reqs[a].res.success
    /\ IsVote(reqs[b]) /\ reqs[b].res.error = AlreadyVoted
    /\ reqs[b].user = reqs[a].user /\ reqs[b].poll = reqs[a].poll
    /\ reqs[b].option # reqs[a].option
    /\ votes = SeedVotes \cup {VoteRow(reqs[a])}

\* C17: the step in which getPollById gets its options returns one entry for
\* every option of the poll, an option without votes with count 0, each count
\* being the number of vote rows on the option, in ascending order of the
\* option ids (so the sequence is a function of the store's state); and no
\* step of a read changes a table.
C17_TallyListsEveryOptionInIdOrder ==
  [][\A r \in Slots :
       /\ (reqs[r].op = "getPollById" /\ reqs[r].pc = "rpc" /\ reqs'[r].res.success) =>
            LET t == reqs'[r].out
            IN /\ Len(t) = Cardinality(OptionsOf(reqs[r].poll))
               /\ {t[i].id : i \in 1..Len(t)} = {o.id : o \in OptionsOf(reqs[r].poll)}
               /\ \A i, j \in 1..Len(t) : i < j => t[i].id < t[j].id
               /\ \A i \in 1..Len(t) :
                    t[i].votes = Cardinality({v \in votes : v.poll_option_id = t[i].id})
       /\ (reqs[r].op = "getPollById" /\ reqs[r].pc = "rpc" /\ reqs'[r].pc = "done") =>
            UNCHANGED <<store, nextId>>
       /\ (FirstStep /\ r \in Starting /\ reqs'[r].op = "getPollById") =>
            UNCHANGED <<store, nextId>>]_vars

\* A read returned the tally of a poll with a voted and an unvoted option.
C17_TallyWithZeroCount ==
  \E r \in Returned :
    /\ reqs[r].op = "getPollById" /\ reqs[r].res.success
    /\ \E i, j \in 1..Len(reqs[r].out) :
         i < j /\ reqs[r].out[i].votes > 0 /\ reqs[r].out[j].votes = 0

\* C18: an update or delete by a logged-in user of a poll id that no row has
\* (the store failing no call) returns the failure 'Poll not found', never
\* success.
C18_MissingPollNotFound ==
  \A r \in Returned :
    (/\ IsUpdate(reqs[r]) \/ IsDelete(reqs[r])
     /\ reqs[r].user # NoUser /\ ~reqs[r].fault
     /\ reqs[r].poll = UnknownId /\ reqs[r].pre.poll = NoPoll) =>
      /\ ~reqs[r].res.success
      /\ reqs[r].res.error = "Poll not found"

\* C19: a deleteComment by a logged-in user that the store does not fail
\* removes the comment when the caller is its author or an administrator, and
\* leaves it in the table when the caller is any other user.
C19_AuthorOrAdminDeletesComment ==
  [][FirstStep =>
       \A r \in Starting :
         (/\ Entered(r, {"deleteComment"})
          /\ reqs'[r].user # NoUser /\ ~reqs'[r].fault) =>
           \A c \in comments :
             c.id = reqs'[r].comment =>
               IF c.user_id = reqs'[r].user \/ reqs'[r].user \in Admins
                 THEN c \notin comments'
                 ELSE c \in comments']_vars

\* C20: no call of a mutating handler ends by throwing to its caller: every
\* call that has ended has returned a result.
C20_NoCallThrows ==
  \A r \in Slots : reqs[r].pc # "thrown"

\* The call in slot r is the one that takes the step.
Acting(r) ==
  IF FirstStep THEN r \in Starting ELSE reqs'[r].pc # reqs[r].pc

\* C21: every vote row a step adds carries, as user_id, the session user of
\* the call that took the step, and that call has a session user: no call
\* adds a vote row of another user, whatever user id it passes.
C21_VoteRowIsTheCallersOwn ==
  [][\A v \in votes' \ votes :
       \E r \in Slots :
         Acting(r) /\ reqs'[r].user \in Users /\ v.user_id = reqs'[r].user]_vars

\* A user called castVote with the other user's id, for an option of a poll
\* on which that user has no vote, and was refused: there still is none.
C21_VoteForAnotherRefused ==
  \E r \in Returned :
    /\ reqs[r].op = "castVote" /\ reqs[r].user \in Users
    /\ reqs[r].voter \in Users \ {reqs[r].user}
    /\ \E o \in OptionsOf(reqs[r].poll) : o.id = reqs[r].option
    /\ ~reqs[r].res.success /\ ~reqs[r].fault
    /\ VotesOf(reqs[r].poll, reqs[r].voter) = {}

\* C22: no step changes a vote row (a row of votes after the step with the
\* poll and user of a row before it is that row), and a step that removes a
\* vote row is a step of a deletePoll or updatePoll call on the row's poll.
C22_VoteRemovedOnlyWithItsPoll ==
  [][/\ \A v \in votes, w \in votes' :
          (v.poll_id = w.poll_id /\ v.user_id = w.user_id) => w = v
     /\ \A v \in votes \ votes' :
          \E r \in Slots :
            /\ Acting(r)
            /\ IsDelete(reqs'[r]) \/ IsUpdate(reqs'[r])
            /\ reqs'[r].poll = v.poll_id]_vars

\* C23: a vote whose call the store failed or refused returns a failure, never
\* success, and the failure is one of the fixed messages: it carries nothing
\* of the store's own message.
C23_VoteFaultsAreTyped ==
  \A r \in Returned :
    IsVote(reqs[r]) =>
      /\ reqs[r].fault => ~reqs[r].res.success
      /\ reqs[r].res.detail = ""

\* C24: createComment refuses a content that is empty or longer than 1000
\* characters with the validation failure and writes nothing, and every
\* comment row has a content of 1 to 1000 characters.
C24_CommentContentWithinBounds ==
  /\ [](\A c \in comments : Len(c.content) >= 1 /\ Len(c.content) <= 1000)
  /\ [][FirstStep =>
          \A r \in Starting :
            Entered(r, {"createComment"}) =>
              \A p \in AnyPollId, c \in CommentInputs, s \in Sessions :
                ((Len(c) = 0 \/ Len(c) > 1000) /\ createComment(r, p, c, s)) =>
                  /\ RefusedWith(r, {"Validation failed"})
                  /\ UNCHANGED <<store, nextId>>]_vars

\* A comment on an existing poll was refused for its content while a comment
\* written by createComment is stored.
C24_CommentRefusedAndCommentStored ==
  /\ \E r \in Returned :
       /\ reqs[r].op = "createComment" /\ reqs[r].poll # BadId
       /\ reqs[r].res.error = "Validation failed"
  /\ \E c \in comments : c \notin SeedComments

\* C25: a successful updatePoll of poll P invalidates exactly the three paths
\* '/', '/polls' and '/polls/P'; a successful deletePoll exactly '/' and
\* '/polls'; a successful vote on P invalidates '/polls/P' and '/polls'; a
\* successful createPoll invalidates '/polls'.
C25_SuccessInvalidatesItsPaths ==
  \A r \in Returned :
    LET q == reqs[r]
        paths == RangeOf(q.reval)
    IN q.res.success =>
         /\ IsUpdate(q) =>
              /\ Len(q.reval) = 3
              /\ paths = {Path("/", 0), Path("/polls", 0), Path("/polls/[id]", q.poll)}
         /\ IsDelete(q) =>
              /\ Len(q.reval) = 2
              /\ paths = {Path("/", 0), Path("/polls", 0)}
         /\ IsVote(q) =>
              {Path("/polls/[id]", q.poll), Path("/polls", 0)} \subseteq paths
         /\ q.op \in {"createPoll", "createPollWithSession"} =>
              Path("/polls", 0) \in paths

IsWriter(q) ==
  \/ q.op \in {"createPoll", "createPollWithSession"}
  \/ IsUpdate(q) \/ IsDelete(q) \/ IsVote(q)

\* C26: a createPoll, updatePoll, deletePoll or vote call has invalidated
\* cached paths only once it has returned success, so after the last of its
\* store writes; a call that returned failure, or is still between its store
\* calls, has invalidated nothing, and one that returned success has.
C26_InvalidationOnlyAfterSuccess ==
  \A r \in Slots :
    LET q == reqs[r]
    IN IsWriter(q) =>
         /\ q.reval # << >> => q.pc = "done" /\ q.res.success
         /\ (q.pc = "done" /\ q.res.success) => q.reval # << >>

\* An updatePoll that failed after deleting the poll's options invalidated
\* nothing, while a vote that succeeded invalidated its paths.
C26_FailedAfterWriteAndSucceeded ==
  /\ \E r \in Returned :
       /\ IsUpdate(reqs[r]) /\ ~reqs[r].res.success /\ reqs[r].fault
       /\ reqs[r].pre.options # {} /\ OptionsOf(reqs[r].poll) = {}
       /\ reqs[r].reval = << >>
  /\ \E r \in Returned :
       IsVote(reqs[r]) /\ reqs[r].res.success /\ reqs[r].reval # << >>

\* A createPoll or updatePoll call on poll pollId is between its store calls.
InFlightOn(pollId) ==
  \E r \in Slots :
    /\ ~Free(r)
    /\ IsUpdate(reqs[r]) \/ reqs[r].op \in {"createPoll", "createPollWithSession"}
    /\ reqs[r].poll = pollId

\* C27: while no createPoll or updatePoll call on a poll is in flight, the
\* poll has at least two options; a failed or refused updatePoll leaves no
\* poll without options.
C27_PollKeepsTwoOptions ==
  \A p \in polls :
    ~InFlightOn(p.id) => Cardinality(OptionsOf(p.id)) >= 2

\* C28: read in the same state, the list's votes_count of a poll equals the
\* detail's total_votes, and the list's options_count equals the number of
\* options the detail read returns.
C28_ListAgreesWithDetail ==
  \A p \in polls :
    /\ votes_count(p.id) = total_votes(p.id)
    /\ options_count(p.id) = Len(formattedOptions(p.id))

\* C29: a deleteComment call returns success only when the comment it names
\* was in the table before the call and is not after it; a call that removes
\* nothing (no such comment, or a comment of another user) returns failure.
C29_DeleteCommentSuccessMeansRemoved ==
  [][FirstStep =>
       \A r \in Starting :
         (Entered(r, {"deleteComment"}) /\ reqs'[r].res.success) =>
           \E c \in comments : c.id = reqs'[r].comment /\ c \notin comments']_vars
====
